---- MODULE Spec2Model ----
(***************************************************************************)
(* Model of the Sapientino grid-world simulation (sapientino_env.py):      *)
(* configuration, direction, robot, grid, simulation state, and the        *)
(* environment operations reset / step / observe / is_finished.            *)
(*                                                                         *)
(* Rewards are Python floats in the source; the model keeps them as        *)
(* integers in hundredths (-0.01 is -1, -1.0 is -100).                     *)
(***************************************************************************)
EXTENDS Integers, Sequences, FiniteSets, TLC

VARIABLES config, steps, score, robot, cells, color_count, last_command, ret

vars == <<config, steps, score, robot, cells, color_count, last_command, ret>>

(* ---------------- bounds of the model ---------------- *)

\* cap on the step counter of one episode (the counter is unbounded in the code)
MaxSteps == 4

(* ---------------- Colors, color2int, TOKENS ---------------- *)

Colors == {"blank", "red", "green", "blue", "pink", "brown", "gray", "purple"}

color2int ==
  [c \in Colors |->
     CASE c = "blank" -> 0 [] c = "red" -> 1 [] c = "green" -> 2
       [] c = "blue" -> 3 [] c = "pink" -> 4 [] c = "brown" -> 5
       [] c = "gray" -> 6 [] c = "purple" -> 7]

\* <<color, x, y>> of every token
TOKENS ==
  { <<"red", 0, 0>>, <<"red", 1, 1>>, <<"red", 6, 3>>,
    <<"green", 4, 0>>, <<"green", 5, 2>>, <<"green", 5, 4>>,
    <<"blue", 1, 3>>, <<"blue", 2, 4>>, <<"blue", 6, 0>>,
    <<"pink", 2, 1>>, <<"pink", 2, 3>>, <<"pink", 4, 2>>,
    <<"brown", 3, 0>>, <<"brown", 3, 4>>, <<"brown", 6, 1>>,
    <<"gray", 0, 2>>, <<"gray", 3, 1>>, <<"gray", 4, 3>>,
    <<"purple", 0, 4>>, <<"purple", 1, 0>>, <<"purple", 5, 1>> }

(* ---------------- Direction ---------------- *)

NB_DIRECTIONS == 4

\* a rotate_left without the wrap-around
rotate_left_nowrap(th) == th + 90

rotate_left(th) == (th + 90) % 360

\* a rotate_right without the wrap-around
rotate_right_nowrap(th) == th - 90

\* Python's % with a positive modulus is never negative, so the == -90 test
\* of the source never fires
rotate_right(th) ==
  LET t == (th - 90) % 360 IN IF t = -90 THEN 270 ELSE t

(* ---------------- commands ---------------- *)

LEFT == 0
UP == 1
FORWARD == 1
RIGHT == 2
DOWN == 3
BACKWARD == 3
BEEP == 4
NOP == 5

NormalCommand(v) == [type |-> "NormalCommand", value |-> v]
DifferentialCommand(v) == [type |-> "DifferentialCommand", value |-> v]

\* the integers that are values of the command enumerations
CommandValues == {LEFT, UP, RIGHT, DOWN, BEEP, NOP}

(* ---------------- SapientinoConfiguration ---------------- *)

\* horizon argument: <<>> is None, <<h>> is the integer h
SapientinoConfiguration(rows, columns, differential, horizon_arg, rw) ==
  [ rows |-> rows,
    columns |-> columns,
    differential |-> differential,
    horizon_arg |-> horizon_arg,
    horizon |-> IF horizon_arg # <<>> /\ horizon_arg[1] # 0
                  THEN horizon_arg[1]
                  ELSE (columns * rows) * 10,
    reward_outside_grid |-> rw[1],
    reward_duplicate_beep |-> rw[2],
    reward_per_step |-> rw[3] ]

\* a get_action with the two enumerations swapped
get_action_swapped(cfg, action) ==
  IF cfg.differential THEN NormalCommand(action) ELSE DifferentialCommand(action)

get_action(cfg, action) ==
  IF cfg.differential THEN DifferentialCommand(action) ELSE NormalCommand(action)

\* constructor inputs explored by the model
GridSizes == { <<5, 7>>, <<2, 2>> }          \* <<rows, columns>>
HorizonArgs == { <<>>, <<0>>, <<2>>, <<-1>> }
\* <<reward_outside_grid, reward_duplicate_beep, reward_per_step>>, hundredths
DefaultRewards == <<-100, -100, -1>>
OtherRewards == <<-100, -50, -2>>

\* every grid, mode and horizon with the default rewards, and every grid and
\* mode with rewards that differ from each other
Configs ==
  { SapientinoConfiguration(g[1], g[2], d, h, DefaultRewards) :
      g \in GridSizes, d \in BOOLEAN, h \in HorizonArgs }
  \cup
  { SapientinoConfiguration(g[1], g[2], d, <<2>>, OtherRewards) :
      g \in GridSizes, d \in BOOLEAN }

(* ---------------- Robot ---------------- *)

Robot(cfg) == [x |-> 3, y |-> 2, th |-> 90]

\* a Robot.step whose Normal-mode UP and DOWN use screen coordinates
\* (UP decreases y)
RobotStep_screen_y(r, command) ==
  IF command.type = "NormalCommand" THEN
    CASE command.value = DOWN  -> [r EXCEPT !.y = @ + 1]
      [] command.value = UP    -> [r EXCEPT !.y = @ - 1]
      [] command.value = RIGHT -> [r EXCEPT !.x = @ + 1]
      [] command.value = LEFT  -> [r EXCEPT !.x = @ - 1]
      [] OTHER -> r
  ELSE
    LET dx == IF r.th = 0 THEN 1 ELSE IF r.th = 180 THEN -1 ELSE 0
        dy == IF r.th = 90 THEN 1 ELSE IF r.th = 270 THEN -1 ELSE 0
    IN CASE command.value = LEFT     -> [r EXCEPT !.th = rotate_left(@)]
         [] command.value = RIGHT    -> [r EXCEPT !.th = rotate_right(@)]
         [] command.value = FORWARD  -> [r EXCEPT !.x = @ + dx, !.y = @ + dy]
         [] command.value = BACKWARD -> [r EXCEPT !.x = @ - dx, !.y = @ - dy]
         [] OTHER -> r

\* Robot.step for a command of either enumeration
RobotStep(r, command) ==
  IF command.type = "NormalCommand" THEN
    CASE command.value = DOWN  -> [r EXCEPT !.y = @ - 1]
      [] command.value = UP    -> [r EXCEPT !.y = @ + 1]
      [] command.value = RIGHT -> [r EXCEPT !.x = @ + 1]
      [] command.value = LEFT  -> [r EXCEPT !.x = @ - 1]
      [] OTHER -> r
  ELSE
    LET dx == IF r.th = 0 THEN 1 ELSE IF r.th = 180 THEN -1 ELSE 0
        dy == IF r.th = 90 THEN 1 ELSE IF r.th = 270 THEN -1 ELSE 0
    IN CASE command.value = LEFT     -> [r EXCEPT !.th = rotate_left(@)]
         [] command.value = RIGHT    -> [r EXCEPT !.th = rotate_right(@)]
         [] command.value = FORWARD  -> [r EXCEPT !.x = @ + dx, !.y = @ + dy]
         [] command.value = BACKWARD -> [r EXCEPT !.x = @ - dx, !.y = @ - dy]
         [] OTHER -> r

\* an orientation reported as the angle itself
encoded_theta_angle(r) == r.th

\* self.direction.th // 90
encoded_theta(r) == r.th \div 90

(* ---------------- Cell, SapientinoGrid ---------------- *)

Cell(color) == [color |-> color, bip_count |-> 0]

\* "bip_count = 1" written for "bip_count += 1"
CellBeep_assign(cell) == [cell EXCEPT !.bip_count = 1]

\* Cell.beep
CellBeep(cell) == [cell EXCEPT !.bip_count = @ + 1]

\* keys of the cells dictionary after _populate_token_grid
GridKeys(cfg) ==
  { <<t[2], t[3]>> : t \in TOKENS }
    \cup ((0 .. cfg.columns - 1) \X (0 .. cfg.rows - 1))

_populate_token_grid(cfg) ==
  [ p \in GridKeys(cfg) |->
      IF \E t \in TOKENS : <<t[2], t[3]>> = p
        THEN Cell((CHOOSE t \in TOKENS : <<t[2], t[3]>> = p)[1])
        ELSE Cell("blank") ]

\* defaultdict(lambda: 0): no key until a color is first counted
EmptyColorCount == [c \in {} |-> 0]

ColorCountGet(cc, c) == IF c \in DOMAIN cc THEN cc[c] ELSE 0

\* a test that counts the beeps of blank cells too
CountsColor_any(color) == TRUE

\* cell.color != Colors.BLANK
CountsColor(color) == color # "blank"

\* a counter set to 1 instead of incremented
ColorCountIncr_set(cc, c) ==
  [k \in (DOMAIN cc) \cup {c} |-> IF k = c THEN 1 ELSE cc[k]]

\* self.grid.color_count[cell.color] += 1
ColorCountIncr(cc, c) ==
  [k \in (DOMAIN cc) \cup {c} |-> IF k = c THEN ColorCountGet(cc, c) + 1 ELSE cc[k]]

(* ---------------- SapientinoState ---------------- *)

InitialLastCommand(cfg) ==
  IF cfg.differential THEN NormalCommand(NOP) ELSE DifferentialCommand(NOP)

\* a clip that wraps around instead of saturating
clip_wrap(v, lo, hi) == lo + ((v - lo) % (hi - lo + 1))

\* numpy.clip on integers
clip(v, lo, hi) == IF v < lo THEN lo ELSE IF v > hi THEN hi ELSE v

OutOfRange(v, extent) == ~(0 <= v /\ v < extent)

\* a step counter incremented twice per call
NextSteps_twice(n) == n + 2

\* self._steps += 1
NextSteps(n) == n + 1

\* "reward = amount" written for "reward += amount"
AddReward_assign(reward, amount) == amount

\* reward += amount
AddReward(reward, amount) == reward + amount

\* a duplicate test that already fires on the first beep
DuplicateBeep_first(bip_count) == bip_count >= 1

\* cell.bip_count >= 2, read after cell.beep()
DuplicateBeep(bip_count) == bip_count >= 2

\* a termination test with >= for >
is_finished_ge(n, cfg) == n >= cfg.horizon

\* a termination test with == for >
is_finished_once(n, cfg) == n = cfg.horizon + 1

is_finished(n, cfg) == n > cfg.horizon

last_command_beep(command) == command.value = 4


\* SapientinoState.to_dict / Sapientino.observe; the current_cell lookup
\* raises KeyError when the robot's position is not a key of the grid
current_cell_exists(r, cl) == <<r.x, r.y>> \in DOMAIN cl

to_dict(r, cl, command) ==
  [ x |-> r.x,
    y |-> r.y,
    theta |-> encoded_theta(r),
    beep |-> IF last_command_beep(command) THEN 1 ELSE 0,
    color |-> color2int[cl[<<r.x, r.y>>].color] ]

\* the part of SapientinoState.step after the step counter was incremented
\* and Robot.step accepted the command
StepBody(cfg, r, cl, cc, command) ==
  LET moved == RobotStep(r, command)
      xout == OutOfRange(moved.x, cfg.columns)
      r1 == IF xout THEN [moved EXCEPT !.x = clip(moved.x, 0, cfg.columns - 1)]
                    ELSE moved
      rew1 == IF xout THEN AddReward(0, cfg.reward_outside_grid) ELSE 0
      yout == OutOfRange(r1.y, cfg.rows)
      r2 == IF yout THEN [r1 EXCEPT !.y = clip(r1.y, 0, cfg.rows - 1)] ELSE r1
      rew2 == IF yout THEN AddReward(rew1, cfg.reward_outside_grid) ELSE rew1
      beep == command.value = BEEP
      position == <<r2.x, r2.y>>
      cl1 == IF beep THEN [cl EXCEPT ![position] = CellBeep(@)] ELSE cl
      cc1 == IF beep /\ CountsColor(cl1[position].color)
               THEN ColorCountIncr(cc, cl1[position].color) ELSE cc
      rew3 == IF beep /\ DuplicateBeep(cl1[position].bip_count)
                THEN AddReward(rew2, cfg.reward_duplicate_beep) ELSE rew2
  IN [ robot |-> r2, cells |-> cl1, color_count |-> cc1,
       reward |-> AddReward(rew3, cfg.reward_per_step) ]

(* ---------------- Sapientino (the environment) ---------------- *)

\* integers outside the command enumerations, passed to Sapientino.step
InvalidActions == {-1, 6}

\* values that are no command of either mode, passed to SapientinoState.step
NonCommands == {"4", "beep"}

Init ==
  /\ config \in Configs
  /\ steps = 0
  /\ score = 0
  /\ robot = Robot(config)
  /\ cells = _populate_token_grid(config)
  /\ color_count = EmptyColorCount
  /\ last_command = InitialLastCommand(config)
  /\ ret = [op |-> "init"]

\* Sapientino.step(action) with an integer of the action space
EnvStep(action) ==
  /\ action \in CommandValues
  /\ steps < MaxSteps
  /\ LET command == get_action(config, action)
         n == NextSteps(steps)
         s == StepBody(config, robot, cells, color_count, command)
     IN /\ steps' = n
        /\ robot' = s.robot
        /\ cells' = s.cells
        /\ color_count' = s.color_count
        /\ last_command' = command
        /\ ret' = [ op |-> "step",
                    obs |-> to_dict(s.robot, s.cells, command),
                    reward |-> s.reward,
                    done |-> is_finished(n, config) ]
  /\ UNCHANGED <<config, score>>

\* Sapientino.step(action) with an integer that is no command value:
\* get_action raises ValueError before the state is touched
EnvStepInvalid(action) ==
  /\ action \in InvalidActions
  /\ ret' = [op |-> "step", error |-> "ValueError"]
  /\ UNCHANGED <<config, steps, score, robot, cells, color_count, last_command>>

\* SapientinoState.step(command) with a value that is no command: the step
\* counter is incremented, then Robot.step raises ValueError
StateStepInvalid(value) ==
  /\ value \in NonCommands
  /\ steps < MaxSteps
  /\ steps' = NextSteps(steps)
  /\ ret' = [op |-> "state_step", error |-> "ValueError"]
  /\ UNCHANGED <<config, score, robot, cells, color_count, last_command>>

\* a reset that puts the robot and the counter back but keeps the grid
Reset_keep_grid ==
  /\ steps' = 0
  /\ score' = 0
  /\ robot' = Robot(config)
  /\ last_command' = InitialLastCommand(config)
  /\ ret' = IF current_cell_exists(Robot(config), cells)
              THEN [ op |-> "reset",
                     obs |-> to_dict(Robot(config), cells,
                                     InitialLastCommand(config)) ]
              ELSE [op |-> "reset", error |-> "KeyError"]
  /\ UNCHANGED <<config, cells, color_count>>

\* Sapientino.reset(): a fresh SapientinoState replaces the old one, then
\* observe() is evaluated on it
Reset ==
  /\ steps' = 0
  /\ score' = 0
  /\ robot' = Robot(config)
  /\ cells' = _populate_token_grid(config)
  /\ color_count' = EmptyColorCount
  /\ last_command' = InitialLastCommand(config)
  /\ ret' = IF current_cell_exists(Robot(config), _populate_token_grid(config))
              THEN [ op |-> "reset",
                     obs |-> to_dict(Robot(config), _populate_token_grid(config),
                                     InitialLastCommand(config)) ]
              ELSE [op |-> "reset", error |-> "KeyError"]
  /\ UNCHANGED config

\* Sapientino.observe(state) on the current state
Observe ==
  /\ ret' = IF current_cell_exists(robot, cells)
              THEN [op |-> "observe", obs |-> to_dict(robot, cells, last_command)]
              ELSE [op |-> "observe", error |-> "KeyError"]
  /\ UNCHANGED <<config, steps, score, robot, cells, color_count, last_command>>

\* SapientinoState.is_finished() on the current state
IsFinished ==
  /\ ret' = [op |-> "is_finished", value |-> is_finished(steps, config)]
  /\ UNCHANGED <<config, steps, score, robot, cells, color_count, last_command>>

Next ==
  \/ \E action \in CommandValues : EnvStep(action)
  \/ \E action \in InvalidActions : EnvStepInvalid(action)
  \/ \E value \in NonCommands : StateStepInvalid(value)
  \/ Reset
  \/ Observe
  \/ IsFinished

Spec == Init /\ [][Next]_vars

(* ======================================================================= *)
(* Properties                                                              *)
(* ======================================================================= *)

Headings == {0, 90, 180, 270}

\* the transition is a completed call of Sapientino.step
CompletedStep == ret'.op = "step" /\ "reward" \in DOMAIN ret'

\* position of the robot after the command of the transition, before clamping
MovedTo == RobotStep(robot, last_command')

XOutside == MovedTo.x < 0 \/ MovedTo.x >= config.columns
YOutside == MovedTo.y < 0 \/ MovedTo.y >= config.rows

\* number of axes on which the moved-to position is outside the grid
AxesOutside == (IF XOutside THEN 1 ELSE 0) + (IF YOutside THEN 1 ELSE 0)

\* the command of the transition is a BEEP on a cell beeped before in the episode
RepeatBeep ==
  /\ last_command'.value = 4
  /\ cells[<<robot'.x, robot'.y>>].bip_count >= 1

Nearest(v, extent) == IF v < 0 THEN 0 ELSE extent - 1

\* C1: between calls (after construction or reset, and after every step) the
\* robot's position satisfies 0 <= x < columns and 0 <= y < rows.
C1_PositionInBounds ==
  /\ 0 <= robot.x /\ robot.x < config.columns
  /\ 0 <= robot.y /\ robot.y < config.rows

\* C2: a step whose command takes x (y) outside the grid leaves x (y) at the
\* nearest in-bounds value and its reward holds reward_outside_grid exactly
\* once for that axis; on the 7x5 grid in Normal mode RIGHT from x = 3, 4, 5
\* moves without penalty and RIGHT from x = 6 stays at 6 with reward
\* reward_outside_grid + reward_per_step.
C2_ClampAndPenalty ==
  [][ CompletedStep =>
        LET rest == config.reward_per_step
                      + (IF RepeatBeep THEN config.reward_duplicate_beep ELSE 0)
            xshare == ret'.reward - rest
                        - (IF YOutside THEN config.reward_outside_grid ELSE 0)
            yshare == ret'.reward - rest
                        - (IF XOutside THEN config.reward_outside_grid ELSE 0)
        IN /\ XOutside => /\ robot'.x = Nearest(MovedTo.x, config.columns)
                          /\ xshare = config.reward_outside_grid
           /\ YOutside => /\ robot'.y = Nearest(MovedTo.y, config.rows)
                          /\ yshare = config.reward_outside_grid
           /\ ( /\ config.rows = 5 /\ config.columns = 7 /\ ~config.differential
                /\ last_command' = NormalCommand(RIGHT) /\ robot.y = 2 )
              => /\ robot.x \in {3, 4, 5}
                    => robot'.x = robot.x + 1 /\ ret'.reward = config.reward_per_step
                 /\ robot.x = 6
                    => /\ robot'.x = 6
                       /\ ret'.reward = config.reward_outside_grid
                                          + config.reward_per_step
    ]_vars

\* C2 witness: the fourth RIGHT from the start on the 7x5 grid, Normal mode
C2_Witness ==
  /\ config.rows = 5 /\ config.columns = 7 /\ ~config.differential
  /\ ret.op = "step" /\ "reward" \in DOMAIN ret
  /\ steps = 4 /\ robot.x = 6 /\ robot.y = 2
  /\ last_command = NormalCommand(RIGHT)
  /\ ret.reward = config.reward_outside_grid + config.reward_per_step

\* C3: a completed call of step increases the step counter by exactly 1, and
\* the counter of a state changes in no transition other than a call of step
\* (a reset installs a new state whose counter is 0).
C3_StepCounter ==
  [][ /\ CompletedStep => steps' = steps + 1
      /\ steps' # steps =>
           \/ ret'.op \in {"step", "state_step"} /\ steps' = steps + 1
           \/ ret'.op = "reset" /\ steps' = 0
    ]_vars

C3_Witness ==
  /\ ret.op = "step" /\ "reward" \in DOMAIN ret
  /\ steps = 3

\* C4: is_finished() is false while the step counter is <= horizon and true
\* once it is > horizon, so with horizon H the call H+1 of step is the first
\* to report termination.
C4_IsFinished ==
  /\ ret.op = "is_finished" =>
       /\ steps <= config.horizon => ret.value = FALSE
       /\ steps > config.horizon => ret.value = TRUE
  /\ (ret.op = "step" /\ "done" \in DOMAIN ret) =>
       /\ steps <= config.horizon => ret.done = FALSE
       /\ steps > config.horizon => ret.done = TRUE

C4_Witness ==
  /\ config.horizon = 2
  /\ ret.op = "step" /\ "done" \in DOMAIN ret
  /\ steps = config.horizon + 1
  /\ ret.done = TRUE

\* C5: the reward of a BEEP step holds reward_duplicate_beep iff the cell
\* under the clamped position was beeped before in the episode; the reward of
\* a step of any other command never holds it.
C5_DuplicateBeep ==
  [][ CompletedStep =>
        LET share == ret'.reward - config.reward_per_step
                       - AxesOutside * config.reward_outside_grid
            before == cells[<<robot'.x, robot'.y>>].bip_count
        IN /\ last_command'.value = 4 =>
                /\ before >= 1 => share = config.reward_duplicate_beep
                /\ before = 0 => share = 0
           /\ last_command'.value # 4 => share = 0
    ]_vars

\* C5 witness: a second beep on a cell, with other steps in the episode
C5_Witness ==
  /\ ret.op = "step" /\ "reward" \in DOMAIN ret
  /\ last_command.value = 4
  /\ steps = 4
  /\ cells[<<robot.x, robot.y>>].bip_count = 2
  /\ ret.reward = config.reward_duplicate_beep + config.reward_per_step

\* C6: the reward of a step is reward_per_step + k * reward_outside_grid
\* + d * reward_duplicate_beep, k the number of axes out of bounds after the
\* move and d = 1 for a BEEP on an already beeped cell, else 0.
C6_RewardSum ==
  [][ CompletedStep =>
        /\ ret'.reward = config.reward_per_step
                           + AxesOutside * config.reward_outside_grid
                           + (IF RepeatBeep THEN 1 ELSE 0)
                               * config.reward_duplicate_beep
        /\ (AxesOutside = 0 /\ ~RepeatBeep) => ret'.reward = config.reward_per_step
    ]_vars

\* C6 witness: a NOP step that returns reward_per_step alone
C6_Witness ==
  /\ ret.op = "step" /\ "reward" \in DOMAIN ret
  /\ last_command.value = 5
  /\ C1_PositionInBounds
  /\ steps = 2
  /\ ret.reward = config.reward_per_step

\* the state of a new episode
FreshEpisode ==
  /\ robot = [x |-> 3, y |-> 2, th |-> 90]
  /\ steps = 0
  /\ \A p \in DOMAIN cells : cells[p].bip_count = 0
  /\ \A c \in Colors : ColorCountGet(color_count, c) = 0

\* C7: after reset() the state is the fixed initial state: robot at (3,2)
\* heading 90, step counter 0, every beep count and every color counter 0.
C7_ResetFresh ==
  [][ ret'.op = "reset" => FreshEpisode' ]_vars

C7_Witness ==
  /\ ret.op = "reset"
  /\ FreshEpisode

\* C8: reset() completes without error and returns the observation of a
\* fresh episode at step 0.
C8_ResetSucceeds ==
  ret.op = "reset" =>
    /\ "error" \notin DOMAIN ret
    /\ "obs" \in DOMAIN ret
    /\ steps = 0

\* C9: a call of step with an invalid command raises and leaves the step
\* counter, the robot, the beep counts and last_command as they were.
C9_InvalidStepNoChange ==
  [][ (ret'.op \in {"step", "state_step"} /\ "error" \in DOMAIN ret') =>
        UNCHANGED <<steps, robot, cells, color_count, last_command>>
    ]_vars

RECURSIVE Iterate4Left(_, _)
Iterate4Left(th, n) == IF n = 0 THEN th ELSE Iterate4Left(rotate_left(th), n - 1)

RECURSIVE Iterate4Right(_, _)
Iterate4Right(th, n) == IF n = 0 THEN th ELSE Iterate4Right(rotate_right(th), n - 1)

\* C10: the robot's heading is one of 0, 90, 180, 270 in every reachable
\* state; rotate_left and rotate_right map it into that set (rotate_right of
\* 0 is 270) and four rotations of either kind return to it.
C10_Headings ==
  /\ robot.th \in Headings
  /\ rotate_left(robot.th) \in Headings
  /\ rotate_right(robot.th) \in Headings
  /\ robot.th = 0 => rotate_right(robot.th) = 270
  /\ Iterate4Left(robot.th, 4) = robot.th
  /\ Iterate4Right(robot.th, 4) = robot.th

\* C10 witness: heading 270 reached by two RIGHT rotations (90, 0, 270)
C10_Witness ==
  /\ config.differential
  /\ steps = 2
  /\ last_command = DifferentialCommand(RIGHT)
  /\ robot.th = 270

\* the coordinates inside the configured extent
Extent == (0 .. config.columns - 1) \X (0 .. config.rows - 1)

\* the state was produced by constructing the environment
Constructed == ret.op = "init"

\* C11: constructing a grid whose extent does not contain every coordinate
\* of the marker layout fails; out-of-bounds markers are not accepted.
C11_LayoutOutsideFails ==
  (Constructed /\ \E t \in TOKENS : <<t[2], t[3]>> \notin Extent)
    => "error" \in DOMAIN ret

\* C12: the grid holds exactly one cell for each coordinate of the extent
\* and none for any other coordinate; a cell at a marker coordinate has the
\* marker's color, every other cell is blank.
C12_GridCoversExtent ==
  /\ DOMAIN cells = Extent
  /\ \A p \in DOMAIN cells :
       IF \E t \in TOKENS : <<t[2], t[3]>> = p
         THEN \E t \in TOKENS : <<t[2], t[3]>> = p /\ cells[p].color = t[1]
         ELSE cells[p].color = "blank"

\* color of the cell under the robot after the transition
BeepedColor == cells[<<robot'.x, robot'.y>>].color

\* C13: a BEEP step on a cell of non-blank color c adds exactly 1 to the
\* aggregate counter of c and leaves the other counters alone; a BEEP on a
\* blank cell and a step of any other command leave every counter alone.
C13_ColorCount ==
  [][ CompletedStep =>
        \A c \in Colors :
          ColorCountGet(color_count', c) =
            ColorCountGet(color_count, c)
              + (IF last_command'.value = 4 /\ c # "blank" /\ BeepedColor = c
                   THEN 1 ELSE 0)
    ]_vars

\* C13 witness: the second of two consecutive beeps on a colored cell
C13_Witness ==
  /\ ret.op = "step" /\ "reward" \in DOMAIN ret
  /\ last_command.value = 4
  /\ cells[<<robot.x, robot.y>>].color # "blank"
  /\ cells[<<robot.x, robot.y>>].bip_count = 2
  /\ ColorCountGet(color_count, cells[<<robot.x, robot.y>>].color) = 2

\* C14: right after construction or reset, last_command is the NOP of the
\* configured mode (NormalCommand.NOP in Normal mode, DifferentialCommand.NOP
\* in Differential mode).
C14_InitialLastCommand ==
  ret.op \in {"init", "reset"} =>
    last_command = [ type |-> IF config.differential THEN "DifferentialCommand"
                                                      ELSE "NormalCommand",
                     value |-> 5 ]

C16_HorizonPositive ==
  config.horizon > 0

\* C17: the effective horizon is the supplied value whenever one is supplied,
\* and rows * columns * 10 only when none is supplied.
C17_HorizonAsSupplied ==
  /\ config.horizon_arg # <<>> => config.horizon = config.horizon_arg[1]
  /\ config.horizon_arg = <<>> => config.horizon = config.rows * config.columns * 10

\* displacement of a Normal-mode command: LEFT 0, UP 1, RIGHT 2, DOWN 3
NormalDx(v) == IF v = 0 THEN -1 ELSE IF v = 2 THEN 1 ELSE 0
NormalDy(v) == IF v = 1 THEN 1 ELSE IF v = 3 THEN -1 ELSE 0

\* C18: in Normal mode, before clamping, LEFT changes x by -1, RIGHT by +1,
\* UP changes y by +1 and DOWN by -1, each leaving the other coordinate
\* alone; BEEP and NOP leave the position alone; where the target lies inside
\* the grid it is the position after the step.
C18_NormalMoves ==
  [][ (CompletedStep /\ last_command'.type = "NormalCommand") =>
        LET v == last_command'.value
            tx == robot.x + NormalDx(v)
            ty == robot.y + NormalDy(v)
        IN /\ RobotStep(robot, last_command').x = tx
           /\ RobotStep(robot, last_command').y = ty
           /\ <<tx, ty>> \in Extent => robot'.x = tx /\ robot'.y = ty
           /\ robot'.x - robot.x \in {-1, 0, 1} \/ <<robot.x, robot.y>> \notin Extent
           /\ robot'.y - robot.y \in {-1, 0, 1} \/ <<robot.x, robot.y>> \notin Extent
    ]_vars

\* C18 witness: UP from the start on the 7x5 grid
C18_Witness ==
  /\ ~config.differential /\ config.rows = 5
  /\ ret.op = "step" /\ "reward" \in DOMAIN ret
  /\ steps = 1
  /\ last_command = NormalCommand(UP)
  /\ robot.x = 3 /\ robot.y = 3

\* unit vector of a heading: 0 is +x, 90 is +y, 180 is -x, 270 is -y
HeadingDx(th) == IF th = 0 THEN 1 ELSE IF th = 180 THEN -1 ELSE 0
HeadingDy(th) == IF th = 90 THEN 1 ELSE IF th = 270 THEN -1 ELSE 0

\* C19: in Differential mode LEFT and RIGHT change only the heading, by +90
\* and -90 degrees mod 360; FORWARD and BACKWARD keep the heading and change
\* one coordinate by one unit along the heading held before the step
\* (BACKWARD with the opposite sign); BEEP and NOP change neither.  Positions
\* are those before clamping; inside the grid they are the positions after
\* the step.
C19_DifferentialMoves ==
  [][ (CompletedStep /\ last_command'.type = "DifferentialCommand") =>
        LET v == last_command'.value
            sign == IF v = 1 THEN 1 ELSE IF v = 3 THEN -1 ELSE 0
            tx == robot.x + sign * HeadingDx(robot.th)
            ty == robot.y + sign * HeadingDy(robot.th)
            tth == IF v = 0 THEN (robot.th + 90) % 360
                   ELSE IF v = 2 THEN (robot.th + 270) % 360
                   ELSE robot.th
            moved == RobotStep(robot, last_command')
        IN /\ moved = [x |-> tx, y |-> ty, th |-> tth]
           /\ robot'.th = tth
           /\ <<tx, ty>> \in Extent => robot'.x = tx /\ robot'.y = ty
           /\ v \in {1, 3} =>
                (IF tx # robot.x THEN 1 ELSE 0) + (IF ty # robot.y THEN 1 ELSE 0) = 1
    ]_vars

\* C19 witness: LEFT turns 90 into 180, FORWARD then moves along -x
C19_Witness ==
  /\ config.differential /\ config.rows = 5
  /\ ret.op = "step" /\ "reward" \in DOMAIN ret
  /\ steps = 2
  /\ last_command = DifferentialCommand(FORWARD)
  /\ robot = [x |-> 2, y |-> 2, th |-> 180]

\* C20: every beep count is 0 at the start of an episode and never decreases
\* within it; a step changes beep counts only when its command is BEEP, and
\* then adds exactly 1 to the count of the cell at the clamped position and
\* leaves every other count alone.
C20_BeepCounts ==
  /\ [](ret.op \in {"init", "reset"} => \A p \in DOMAIN cells : cells[p].bip_count = 0)
  /\ [][ /\ ret'.op # "reset" =>
              /\ DOMAIN cells' = DOMAIN cells
              /\ \A p \in DOMAIN cells : cells'[p].bip_count >= cells[p].bip_count
         /\ CompletedStep =>
              \A p \in DOMAIN cells :
                cells'[p].bip_count =
                  cells[p].bip_count
                    + (IF last_command'.value = 4 /\ p = <<robot'.x, robot'.y>>
                         THEN 1 ELSE 0)
         /\ (~CompletedStep /\ ret'.op # "reset") => cells' = cells
       ]_vars

\* C20 witness: a second beep on a cell, another cell still at 0
C20_Witness ==
  /\ ret.op = "step" /\ "reward" \in DOMAIN ret
  /\ last_command.value = 4
  /\ cells[<<robot.x, robot.y>>].bip_count = 2
  /\ \E p \in DOMAIN cells : cells[p].bip_count = 0

\* sum of the beep counts of the cells of color c among the positions S
RECURSIVE SumBeeps(_, _)
SumBeeps(S, c) ==
  IF S = {} THEN 0
  ELSE LET p == CHOOSE q \in S : TRUE
       IN (IF cells[p].color = c THEN cells[p].bip_count ELSE 0)
            + SumBeeps(S \ {p}, c)

\* C21: in every reachable state the aggregate counter of every non-blank
\* color equals the sum of the beep counts of the cells of that color, and
\* the blank color has no counter.
C21_ColorCountIsSum ==
  /\ \A c \in Colors \ {"blank"} :
       ColorCountGet(color_count, c) = SumBeeps(DOMAIN cells, c)
  /\ "blank" \notin DOMAIN color_count

\* C21 witness: on the 2x2 grid, one beep on each of the red cells (1,1) and
\* (0,0), so the red counter 2 is the sum of two cells
C21_Witness ==
  /\ config.rows = 2 /\ config.columns = 2
  /\ cells[<<1, 1>>].bip_count = 1
  /\ cells[<<0, 0>>].bip_count = 1
  /\ ColorCountGet(color_count, "red") = 2

\* the step counter of the current episode has passed the horizon
PastHorizon == steps > config.horizon

\* C22: once is_finished() is true it stays true after every further step of
\* the episode: step is not blocked past the horizon, it still increments the
\* step counter and changes robot and grid, and only a reset makes
\* is_finished() false again.
C22_FinishedStays ==
  /\ []( (PastHorizon /\ steps < MaxSteps)
           => ENABLED (\E action \in CommandValues : EnvStep(action)) )
  /\ [][ PastHorizon =>
           /\ CompletedStep =>
                /\ steps' = steps + 1
                /\ ret'.done = TRUE
                /\ last_command'.value = 4 =>
                     cells'[<<robot'.x, robot'.y>>].bip_count
                       = cells[<<robot'.x, robot'.y>>].bip_count + 1
           /\ ret'.op = "is_finished" => ret'.value = TRUE
           /\ steps' <= config.horizon => ret'.op = "reset"
       ]_vars

\* C22 witness: horizon 2, the third step reports done, the fourth step is a
\* BEEP that still marks its cell and reports done
C22_Witness ==
  /\ config.horizon = 2
  /\ ret.op = "step" /\ "done" \in DOMAIN ret
  /\ steps = 4
  /\ ret.done = TRUE
  /\ last_command.value = 4
  /\ cells[<<robot.x, robot.y>>].bip_count = 1

\* C23: in Normal mode no command changes the robot's heading: it is the
\* initial 90 degrees (encoded orientation 1) in every reachable state of
\* every episode.
C23_NormalHeadingFixed ==
  ~config.differential =>
    /\ robot.th = 90
    /\ "obs" \in DOMAIN ret => ret.obs.theta = 1

\* C23 witness: Normal mode, after four steps the last of which is LEFT
C23_Witness ==
  /\ ~config.differential
  /\ ret.op = "step" /\ "obs" \in DOMAIN ret
  /\ steps = 4
  /\ last_command = NormalCommand(LEFT)
  /\ robot.th = 90
  /\ ret.obs.theta = 1

====
